---- MODULE Spec2Model ----
(***************************************************************************)
(* CVitae LaTeX service (latex-service/app.py).                            *)
(*                                                                         *)
(* The service is one process that serves HTTP requests on concurrent      *)
(* threads.  Every request handler is a sequence of steps; a step is one   *)
(* file-system operation or one blocking external process invocation       *)
(* together with the local computation that follows it.  The file system   *)
(* under the workspace root is shared by all requests.                     *)
(*                                                                         *)
(* A LaTeX source text is a sequence of tokens.  The tokens are the three  *)
(* markers the code searches for, the two brace characters it counts, a    *)
(* whitespace character and an ordinary character.                         *)
(***************************************************************************)
EXTENDS Integers, Sequences, FiniteSets, TLC

\* ------------------------------------------------------------------ bounds
MaxJobs == 2
MaxLen == 4
MaxLogLen == 3
MaxNameParts == 3
MaxCleanups == 2

\* ------------------------------------------------------- program constants
Pid == 1
FallbackPasses == 3

Jobs == 1..MaxJobs

None == "none"

\* work_dir = None
NoDir == <<>>

\* ------------------------------------------------------------ source text
DC == "\\documentclass"
BD == "\\begin{document}"
ED == "\\end{document}"
NL == "\n"

Chars == {DC, BD, ED, "{", "}", NL, "x"}

RECURSIVE SeqsUpTo(_)
SeqsUpTo(n) ==
    IF n = 0 THEN {<<>>}
    ELSE LET shorter == SeqsUpTo(n - 1)
         IN  shorter \cup {Append(s, c) : s \in {t \in shorter : Len(t) = n - 1}, c \in Chars}

Sources == SeqsUpTo(MaxLen)

\* str.isspace of one token
IsSpace(c) == c = NL

\* `marker in text`
Contains(s, marker) == \E i \in 1..Len(s) : s[i] = marker

\* str.rstrip
RECURSIVE RStrip(_)
RStrip(s) ==
    IF s = <<>> THEN s
    ELSE IF IsSpace(s[Len(s)]) THEN RStrip(SubSeq(s, 1, Len(s) - 1))
    ELSE s

\* str.lstrip
RECURSIVE LStrip(_)
LStrip(s) ==
    IF s = <<>> THEN s
    ELSE IF IsSpace(s[1]) THEN LStrip(Tail(s))
    ELSE s

\* str.strip
Strip(s) == LStrip(RStrip(s))

\* occurrences of the character ch inside one token
CharsIn(c, ch) ==
    IF c = ch THEN 1
    ELSE IF c \in {BD, ED} THEN 1
    ELSE 0

\* str.count(ch) for ch one of the two braces
RECURSIVE Count(_, _)
Count(s, ch) ==
    IF s = <<>> THEN 0
    ELSE CharsIn(s[1], ch) + Count(Tail(s), ch)

\* compile_latex_to_pdf, the pre-validation: the error raised, or "ok"
Validate_swapped(s) ==
    IF s = <<>> \/ Strip(s) = <<>> THEN "EmptySource"
    ELSE IF ~ Contains(s, BD) THEN "MissingBeginDocument"
    ELSE IF ~ Contains(s, DC) THEN "MissingDocumentclass"
    ELSE "ok"

Validate(s) ==
    IF s = <<>> \/ Strip(s) = <<>> THEN "EmptySource"
    ELSE IF ~ Contains(s, DC) THEN "MissingDocumentclass"
    ELSE IF ~ Contains(s, BD) THEN "MissingBeginDocument"
    ELSE "ok"

\* compile_latex_to_pdf, the text written to the .tex file
Repair_norepair(s) == s

Repair(s) ==
    IF ~ Contains(s, ED) THEN RStrip(s) \o <<NL, ED>>
    ELSE s

\* validate_latex: the JSON body {valid, errors}
ValidateLatex_oneway(s) ==
    LET e1 == IF ~ Contains(s, DC) THEN <<"Missing \\documentclass">> ELSE <<>>
        e2 == IF ~ Contains(s, BD) THEN <<"Missing \\begin{document}">> ELSE <<>>
        e3 == IF ~ Contains(s, ED) THEN <<"Missing \\end{document}">> ELSE <<>>
        e4 == IF Count(s, "{") > Count(s, "}") THEN <<"Unbalanced braces">> ELSE <<>>
        errors == e1 \o e2 \o e3 \o e4
    IN  [valid |-> Len(errors) = 0, errors |-> errors]

ValidateLatex(s) ==
    LET e1 == IF ~ Contains(s, DC) THEN <<"Missing \\documentclass">> ELSE <<>>
        e2 == IF ~ Contains(s, BD) THEN <<"Missing \\begin{document}">> ELSE <<>>
        e3 == IF ~ Contains(s, ED) THEN <<"Missing \\end{document}">> ELSE <<>>
        e4 == IF Count(s, "{") # Count(s, "}") THEN <<"Unbalanced braces">> ELSE <<>>
        errors == e1 \o e2 \o e3 \o e4
    IN  [valid |-> Len(errors) = 0, errors |-> errors]

\* ---------------------------------------------------------------- requests
Names == {"resume", "cv"}
Formats == {"png", "JPEG", "bmp"}
SupportedFormats == {"png", "jpg", "jpeg"}
ExitCodes == {0, 1}

\* str.lower of the format values a request can carry
Lower(f) == IF f = "JPEG" THEN "jpeg" ELSE f

\* ------------------------------------------------------------------- paths
\* self.temp_dir / f"{output_name}_{os.getpid()}"
WorkDir(n) == <<n, Pid>>

\* work_dir / f"{output_name}.{ext}"
FileIn(d, n, ext) == <<d, n, ext>>

\* Path(p).parent
Parent(p) == p[1]

\* pdf_to_image: work_dir / f"resume.{output_format}"
ImageFile(pdf_path, f) == <<Parent(pdf_path), "resume", f>>

VARIABLES
    pc,         \* per request: the step the handler is at
    kind,       \* per request: the endpoint, "pdf" | "image" | "validate"
    name,       \* per request: output_name
    fmt,        \* per request: the format value as sent
    work_dir,   \* per request: the local work_dir of compile_latex_to_pdf
    result,     \* per request: result.returncode of the last completed process
    attempts,   \* per request: the external processes started, in order
    status,     \* per request: how compile_latex_to_pdf ended
    err,        \* per request: the error the request failed with
    resp,       \* per request: HTTP status sent, 0 while none
    got,        \* per request: origin of the artifact read at the end
    dirs,       \* directories that exist under the workspace root
    files,      \* path -> origin (the request whose source the file holds)
    cleaned,    \* directories LaTeXCompiler.cleanup was called on
    vsrc,       \* the text handed to the validators
    vout,       \* what the validators returned for vsrc
    boot,       \* the start of the service: the dependency probe and its end
    lsrc,       \* the log text handed to parse_latex_log
    lout,       \* what parse_latex_log returned for lsrc
    pjob,       \* one job followed through the paths it creates and writes
    cl          \* the calls of LaTeXCompiler.cleanup and what cannot be removed

vars == <<pc, kind, name, fmt, work_dir, result, attempts, status, err, resp,
          got, dirs, files, cleaned, vsrc, vout, boot, lsrc, lout, pjob, cl>>

reqVars == <<pc, kind, name, fmt, work_dir, result, attempts, status, err, resp, got>>
fsVars == <<dirs, files, cleaned>>
logVars == <<lsrc, lout>>
valVars == <<vsrc, vout, boot, logVars, pjob, cl>>

Exists(p) == p \in DOMAIN files

Attempt(t, rc, raised) == [tool |-> t, rc |-> rc, raised |-> raised]

\* the compilation attempts among the processes a request started
RECURSIVE CompileAttempts(_)
CompileAttempts(a) ==
    IF a = <<>> THEN <<>>
    ELSE IF a[1].tool = "convert" THEN CompileAttempts(Tail(a))
    ELSE <<a[1]>> \o CompileAttempts(Tail(a))

\* fallback passes run so far: the loop variable i of try_direct_pdflatex
Passes(j) == Cardinality({i \in 1..Len(attempts[j]) : attempts[j][i].tool = "pdflatex"})

ServiceInit ==
    /\ pc = [j \in Jobs |-> "idle"]
    /\ kind = [j \in Jobs |-> None]
    /\ name = [j \in Jobs |-> None]
    /\ fmt = [j \in Jobs |-> None]
    /\ work_dir = [j \in Jobs |-> NoDir]
    /\ result = [j \in Jobs |-> 0]
    /\ attempts = [j \in Jobs |-> <<>>]
    /\ status = [j \in Jobs |-> None]
    /\ err = [j \in Jobs |-> None]
    /\ resp = [j \in Jobs |-> 0]
    /\ got = [j \in Jobs |-> 0]
    /\ dirs = {}
    /\ files = <<>>
    /\ cleaned = {}
    /\ boot = [phase |-> "probing", missing |-> <<>>, probed |-> 0, error |-> None]

\* ---------------------------------------------- paths, part by part
\* A path is the sequence of its parts; a part is a name with the suffix
\* the code glues to it ("", "_<pid>", ".tex", ...).  A job name is the
\* sequence of the parts its '/' separate.
Part(b, x) == [b |-> b, x |-> x]
IsDotDot(c) == c.b = ".." /\ c.x = ""

\* Path(tempfile.gettempdir()) / "cvitae_latex"
TempDir == <<Part("tmp", ""), Part("cvitae_latex", "")>>

\* f"{output_name}{x}": the suffix goes to the last part of the name
Suffixed(n, x) == [n EXCEPT ![Len(n)].x = x]

\* self.temp_dir / f"{output_name}_{os.getpid()}"
WorkDirPath(n) == TempDir \o Suffixed(n, "_pid")

\* work_dir / f"{output_name}.tex"
TexPath(n) == WorkDirPath(n) \o Suffixed(n, ".tex")

\* work_dir / f"{output_name}.pdf"
PdfPath(n) == WorkDirPath(n) \o Suffixed(n, ".pdf")

\* Path(pdf_path).parent / f"resume.{output_format}"
ImagePath(pdf_path, f) == SubSeq(pdf_path, 1, Len(pdf_path) - 1) \o <<Part("resume", f)>>

Unresolved == <<Part("?", "?")>>

\* the directory or file the operating system reaches by the path rest from
\* the directory cur, the directories ds existing; Unresolved if a
\* directory on the way does not exist
RECURSIVE Walk(_, _, _)
Walk(cur, rest, ds) ==
    IF rest = <<>> THEN cur
    ELSE IF IsDotDot(rest[1])
    THEN Walk(IF cur = <<>> THEN cur ELSE SubSeq(cur, 1, Len(cur) - 1), Tail(rest), ds)
    ELSE IF Len(rest) = 1 THEN Append(cur, rest[1])
    ELSE IF Append(cur, rest[1]) \in ds THEN Walk(Append(cur, rest[1]), Tail(rest), ds)
    ELSE Unresolved

Resolve(path, ds) == Walk(<<>>, path, ds)

DirOf(p) == SubSeq(p, 1, Len(p) - 1)

NameParts == {"..", "a", "resume"}

RECURSIVE NamesUpTo(_)
NamesUpTo(n) ==
    IF n = 1 THEN {<<Part(b, "")>> : b \in NameParts}
    ELSE LET shorter == NamesUpTo(n - 1)
         IN  shorter \cup {Append(s, Part(b, "")) : s \in {t \in shorter : Len(t) = n - 1},
                                                    b \in NameParts}

\* the values of the 'name' field: "resume", "..", "../a", "a/resume", ...
PathNames == NamesUpTo(MaxNameParts)

\* no job is followed
PathIdle ==
    pjob = [pc |-> "none", name |-> <<>>, fmt |-> None, work |-> Unresolved,
             dirs |-> {}, writes |-> {}]

\* cleanup has not been called and everything can be removed
CleanIdle == cl = [locked |-> {}, order |-> <<>>, calls |-> <<>>, raised |-> FALSE]

\* parse_latex_log has not been called
NoParse == [called |-> FALSE, map |-> <<>>]

LogIdle ==
    /\ lsrc = <<>>
    /\ lout = NoParse

\* no validator has been called
NoCall == [op |-> None, verdict |-> None, tex |-> <<>>, valid |-> FALSE, errors |-> <<>>]

Init ==
    /\ ServiceInit
    /\ vsrc = <<>>
    /\ vout = NoCall
    /\ LogIdle
    /\ PathIdle
    /\ CleanIdle

\* a handler returns a response without having called the compiler
Reply(j, k, code, e) ==
    /\ pc' = [pc EXCEPT ![j] = "done"]
    /\ kind' = [kind EXCEPT ![j] = k]
    /\ resp' = [resp EXCEPT ![j] = code]
    /\ err' = [err EXCEPT ![j] = e]
    /\ UNCHANGED <<name, fmt, work_dir, result, attempts, status, got>>

\* what the pre-validation of compile_latex_to_pdf can answer for the source
\* texts a request can carry
Verdicts == {Validate(s) : s \in Sources}

\* compile_latex_to_pdf up to the creation of the work directory, for a
\* source text the pre-validation answers v for
StartCompile_late(j, k, n, f, v) ==
    /\ kind' = [kind EXCEPT ![j] = k]
    /\ name' = [name EXCEPT ![j] = n]
    /\ fmt' = [fmt EXCEPT ![j] = f]
    /\ pc' = [pc EXCEPT ![j] = "mkdir"]
    /\ err' = [err EXCEPT ![j] = IF v = "ok" THEN None ELSE v]
    /\ UNCHANGED <<status, resp>>
    /\ UNCHANGED <<work_dir, result, attempts, got>>

StartCompile(j, k, n, f, v) ==
    /\ kind' = [kind EXCEPT ![j] = k]
    /\ name' = [name EXCEPT ![j] = n]
    /\ fmt' = [fmt EXCEPT ![j] = f]
    /\ IF v = "ok"
       THEN /\ pc' = [pc EXCEPT ![j] = "mkdir"]
            /\ UNCHANGED <<status, err, resp>>
       ELSE /\ pc' = [pc EXCEPT ![j] = "done"]
            /\ status' = [status EXCEPT ![j] = "Failed"]
            /\ err' = [err EXCEPT ![j] = v]
            /\ resp' = [resp EXCEPT ![j] = 500]
    /\ UNCHANGED <<work_dir, result, attempts, got>>

\* POST /compile/pdf, up to the call of the compiler
CompileToPdf(j) ==
    /\ boot.phase = "up"
    /\ pc[j] = "idle"
    /\ \E present \in BOOLEAN, v \in Verdicts, n \in Names :
          IF ~ present
          THEN Reply(j, "pdf", 400, "LatexRequired")
          ELSE StartCompile(j, "pdf", n, None, v)
    /\ UNCHANGED <<fsVars, valVars>>

FormatSupported_any(f) == TRUE

FormatSupported(f) == f \in SupportedFormats

\* POST /compile/image, up to the call of the compiler
CompileToImage(j) ==
    /\ boot.phase = "up"
    /\ pc[j] = "idle"
    /\ \E present \in BOOLEAN, v \in Verdicts, n \in Names, f \in Formats :
          IF ~ present
          THEN Reply(j, "image", 400, "LatexRequired")
          ELSE IF ~ FormatSupported(Lower(f))
          THEN /\ pc' = [pc EXCEPT ![j] = "done"]
               /\ kind' = [kind EXCEPT ![j] = "image"]
               /\ name' = [name EXCEPT ![j] = n]
               /\ fmt' = [fmt EXCEPT ![j] = f]
               /\ resp' = [resp EXCEPT ![j] = 400]
               /\ err' = [err EXCEPT ![j] = "UnsupportedFormat"]
               /\ UNCHANGED <<work_dir, result, attempts, status, got>>
          ELSE StartCompile(j, "image", n, f, v)
    /\ UNCHANGED <<fsVars, valVars>>

\* POST /validate
ValidateRequest_compiles(j) ==
    /\ boot.phase = "up"
    /\ pc[j] = "idle"
    /\ \E present \in BOOLEAN, n \in Names :
          IF ~ present
          THEN Reply(j, "validate", 400, "LatexRequired")
          ELSE StartCompile(j, "validate", n, None, "ok")
    /\ UNCHANGED <<fsVars, valVars>>

ValidateRequest(j) ==
    /\ boot.phase = "up"
    /\ pc[j] = "idle"
    /\ \E present \in BOOLEAN :
          IF ~ present
          THEN Reply(j, "validate", 400, "LatexRequired")
          ELSE Reply(j, "validate", 200, None)
    /\ UNCHANGED <<fsVars, valVars>>

\* compile_latex_to_pdf: work_dir.mkdir(exist_ok=True)
Mkdir(j) ==
    /\ pc[j] = "mkdir"
    /\ work_dir' = [work_dir EXCEPT ![j] = WorkDir(name[j])]
    /\ dirs' = dirs \cup {WorkDir(name[j])}
    /\ pc' = [pc EXCEPT ![j] = "write"]
    /\ UNCHANGED <<kind, name, fmt, result, attempts, status, err, resp, got,
                   files, cleaned, valVars>>

\* compile_latex_to_pdf: the source is written to the .tex file
WriteTex(j) ==
    /\ pc[j] = "write"
    /\ files' = (FileIn(work_dir[j], name[j], "tex") :> j) @@ files
    /\ pc' = [pc EXCEPT ![j] = "latexmk"]
    /\ UNCHANGED <<kind, name, fmt, work_dir, result, attempts, status, err, resp,
                   got, dirs, cleaned, valVars>>

\* the except clause of compile_latex_to_pdf and of pdf_to_image: what is
\* left of the directories after an error in the work directory d
DirsAfterError_cleanup(ds, d) == ds \ {d}

DirsAfterError(ds, d) == ds

\* the files left after an error in the work directory d
FilesAfterError(fs, d) == fs

\* an exception leaves compile_latex_to_pdf or pdf_to_image and the handler
\* answers 500
Fail(j, e) ==
    /\ err' = [err EXCEPT ![j] = e]
    /\ resp' = [resp EXCEPT ![j] = 500]
    /\ dirs' = DirsAfterError(dirs, work_dir[j])
    /\ files' = FilesAfterError(files, work_dir[j])

\* what a run of latexmk or pdflatex on the file tex leaves in the output
\* directory out: a .pdf and a .log made from the text of tex
Typeset(fs, tex, out, mkpdf, mklog) ==
    LET src == IF tex \in DOMAIN fs THEN fs[tex] ELSE 0
        pdf == IF mkpdf THEN (FileIn(out, tex[2], "pdf") :> src) ELSE <<>>
        log == IF mklog THEN (FileIn(out, tex[2], "log") :> src) ELSE <<>>
    IN  pdf @@ log @@ fs

\* compile_latex_to_pdf: the step after latexmk returned rc
AfterPrimary(rc) == IF rc # 0 THEN "pdflatex" ELSE "check"

\* compile_latex_to_pdf: subprocess.run of latexmk
RunLatexmk(j) ==
    /\ pc[j] = "latexmk"
    /\ \/ \* the process cannot be started: the exception leaves the function
          /\ attempts' = [attempts EXCEPT ![j] = Append(@, Attempt("latexmk", 1, TRUE))]
          /\ status' = [status EXCEPT ![j] = "Failed"]
          /\ pc' = [pc EXCEPT ![j] = "done"]
          /\ Fail(j, "LaunchError")
          /\ UNCHANGED <<result, got>>
       \/ \E rc \in ExitCodes, mkpdf \in BOOLEAN, mklog \in BOOLEAN :
          /\ attempts' = [attempts EXCEPT ![j] = Append(@, Attempt("latexmk", rc, FALSE))]
          /\ files' = Typeset(files, FileIn(work_dir[j], name[j], "tex"), work_dir[j],
                              mkpdf, mklog)
          /\ result' = [result EXCEPT ![j] = rc]
          /\ pc' = [pc EXCEPT ![j] = AfterPrimary(rc)]
          /\ UNCHANGED <<status, err, resp, got, dirs>>
    /\ UNCHANGED <<kind, name, fmt, work_dir, cleaned, valVars>>

\* try_direct_pdflatex: the step after pass number i (from 0) returned rc
AfterPass_nostop(rc, i) ==
    IF i + 1 < FallbackPasses THEN "pdflatex" ELSE "check"

AfterPass_retry(rc, i) ==
    IF rc = 0 THEN "check" ELSE "latexmk"

AfterPass(rc, i) ==
    IF rc = 0 THEN "check"
    ELSE IF i + 1 < FallbackPasses THEN "pdflatex"
    ELSE "check"

\* try_direct_pdflatex: one pass of the loop
RunPdflatex_goeson(j) ==
    /\ pc[j] = "pdflatex"
    /\ \/ \* the process cannot be started: CompletedProcess([], 1, "", str(e))
          /\ attempts' = [attempts EXCEPT ![j] = Append(@, Attempt("pdflatex", 1, TRUE))]
          /\ result' = [result EXCEPT ![j] = 1]
          /\ pc' = [pc EXCEPT ![j] = AfterPass(1, Passes(j))]
          /\ UNCHANGED files
       \/ \E rc \in ExitCodes, mkpdf \in BOOLEAN, mklog \in BOOLEAN :
          /\ attempts' = [attempts EXCEPT ![j] = Append(@, Attempt("pdflatex", rc, FALSE))]
          /\ files' = Typeset(files, FileIn(work_dir[j], name[j], "tex"), work_dir[j],
                              mkpdf, mklog)
          /\ result' = [result EXCEPT ![j] = rc]
          /\ pc' = [pc EXCEPT ![j] = AfterPass(rc, Passes(j))]
    /\ UNCHANGED <<kind, name, fmt, work_dir, status, err, resp, got, dirs, cleaned,
                   valVars>>

RunPdflatex(j) ==
    /\ pc[j] = "pdflatex"
    /\ \/ \* the process cannot be started: CompletedProcess([], 1, "", str(e))
          /\ attempts' = [attempts EXCEPT ![j] = Append(@, Attempt("pdflatex", 1, TRUE))]
          /\ result' = [result EXCEPT ![j] = 1]
          /\ pc' = [pc EXCEPT ![j] = "check"]
          /\ UNCHANGED files
       \/ \E rc \in ExitCodes, mkpdf \in BOOLEAN, mklog \in BOOLEAN :
          /\ attempts' = [attempts EXCEPT ![j] = Append(@, Attempt("pdflatex", rc, FALSE))]
          /\ files' = Typeset(files, FileIn(work_dir[j], name[j], "tex"), work_dir[j],
                              mkpdf, mklog)
          /\ result' = [result EXCEPT ![j] = rc]
          /\ pc' = [pc EXCEPT ![j] = AfterPass(rc, Passes(j))]
    /\ UNCHANGED <<kind, name, fmt, work_dir, status, err, resp, got, dirs, cleaned,
                   valVars>>

\* compile_latex_to_pdf: how the function ends, from the return code of the
\* last result and the existence of the .pdf file
CompileOutcome_rconly(rc, pdfExists) ==
    IF rc # 0 THEN "CompilationFailed" ELSE "ok"

CompileOutcome(rc, pdfExists) ==
    IF rc # 0 THEN "CompilationFailed"
    ELSE IF ~ pdfExists THEN "OutputMissing"
    ELSE "ok"

\* the handlers: the step after compile_latex_to_pdf ended with outcome o
AfterCompile_noraise(k, o) == IF k = "image" THEN "convert" ELSE "done"

AfterCompile(k, o) ==
    IF o # "ok" THEN "done"
    ELSE IF k = "image" THEN "convert"
    ELSE "done"

\* compile_latex_to_pdf from the test of the return code to its end, and for
\* POST /compile/pdf the send_file that follows a success
CheckResult(j) ==
    LET pdf == FileIn(work_dir[j], name[j], "pdf")
        log == FileIn(work_dir[j], name[j], "log")
        o == CompileOutcome(result[j], Exists(pdf))
        nxt == AfterCompile(kind[j], o)
    IN  /\ pc[j] = "check"
        /\ status' = [status EXCEPT ![j] = IF o = "ok" THEN "Succeeded" ELSE "Failed"]
        /\ got' = [got EXCEPT ![j] =
                      IF o = "ok" /\ Exists(pdf) THEN files[pdf]
                      ELSE IF o = "CompilationFailed" /\ Exists(log) THEN files[log]
                      ELSE 0]
        /\ pc' = [pc EXCEPT ![j] = nxt]
        /\ IF o # "ok"
           THEN Fail(j, o)
           ELSE /\ resp' = [resp EXCEPT ![j] = IF nxt = "done" THEN 200 ELSE 0]
                /\ UNCHANGED <<err, dirs, files>>
        /\ UNCHANGED <<kind, name, fmt, work_dir, result, attempts, cleaned, valVars>>

\* what a run of convert on the file pdf leaves: the image file out made
\* from pdf
Rasterize(fs, pdf, out, mkimg) ==
    LET src == IF pdf \in DOMAIN fs THEN fs[pdf] ELSE 0
    IN  IF mkimg THEN (out :> src) @@ fs ELSE fs

\* pdf_to_image: subprocess.run of convert
RunConvert(j) ==
    LET pdf == FileIn(work_dir[j], name[j], "pdf")
    IN  /\ pc[j] = "convert"
        /\ \/ \* the process cannot be started: the exception leaves the function
              /\ attempts' = [attempts EXCEPT ![j] = Append(@, Attempt("convert", 1, TRUE))]
              /\ pc' = [pc EXCEPT ![j] = "done"]
              /\ Fail(j, "LaunchError")
              /\ UNCHANGED result
           \/ \E rc \in ExitCodes, mkimg \in BOOLEAN :
              /\ attempts' = [attempts EXCEPT ![j] = Append(@, Attempt("convert", rc, FALSE))]
              /\ files' = Rasterize(files, pdf, ImageFile(pdf, Lower(fmt[j])), mkimg)
              /\ result' = [result EXCEPT ![j] = rc]
              /\ pc' = [pc EXCEPT ![j] = "checkimg"]
              /\ UNCHANGED <<err, resp, dirs>>
        /\ UNCHANGED <<kind, name, fmt, work_dir, status, got, cleaned, valVars>>

\* pdf_to_image: how the function ends, from the return code of convert and
\* the existence of the image file
ConvertOutcome(rc, imgExists) ==
    IF rc # 0 THEN "ConversionFailed"
    ELSE IF ~ imgExists THEN "ImageMissing"
    ELSE "ok"

\* try_direct_pdflatex: where the stderr of the result of the attempt a
\* comes from, the process or the text of the exception caught
StderrOf(a) == IF a.raised THEN "exception" ELSE "process"

\* pdf_to_image: what of the output of convert the message of the raised
\* exception holds
ErrorCarries(o) ==
    IF o = "ConversionFailed" THEN {"returncode", "stderr", "stdout"}
    ELSE {}

\* pdf_to_image from the test of the return code to its end, and the
\* send_file of POST /compile/image that follows a success
CheckImage(j) ==
    LET pdf == FileIn(work_dir[j], name[j], "pdf")
        o == ConvertOutcome(result[j], Exists(ImageFile(pdf, Lower(fmt[j]))))
    IN  /\ pc[j] = "checkimg"
        /\ pc' = [pc EXCEPT ![j] = "done"]
        /\ IF o # "ok"
           THEN Fail(j, o)
           ELSE /\ resp' = [resp EXCEPT ![j] = 200]
                /\ UNCHANGED <<err, dirs, files>>
        /\ UNCHANGED <<kind, name, fmt, work_dir, result, attempts, status, got,
                       cleaned, valVars>>

\* check_system_dependencies: the tools probed, in this order
Dependencies == <<"latexmk", "pdflatex", "convert">>

\* what subprocess.run([dep, version_flag]) can do: return with code zero,
\* return with a nonzero code, raise FileNotFoundError, raise another OSError
ProbeOutcomes == {"zero", "nonzero", "FileNotFoundError", "OSError"}

\* check_system_dependencies: one turn of the loop over the dependencies
Probe ==
    /\ boot.phase = "probing"
    /\ boot.probed < Len(Dependencies)
    /\ \E o \in ProbeOutcomes :
          LET dep == Dependencies[boot.probed + 1]
          IN  boot' = IF o = "OSError"
                      THEN [boot EXCEPT !.phase = "failed", !.error = "OSError",
                                        !.probed = @ + 1]
                      ELSE IF o = "zero"
                      THEN [boot EXCEPT !.probed = @ + 1]
                      ELSE [boot EXCEPT !.probed = @ + 1, !.missing = Append(@, dep)]
    /\ UNCHANGED <<reqVars, fsVars, vsrc, vout, logVars, pjob, cl>>

\* check_system_dependencies after the loop; the routes are registered and
\* the server started only if it returns
FinishProbe ==
    /\ boot.phase = "probing"
    /\ boot.probed = Len(Dependencies)
    /\ boot' = IF boot.missing # <<>>
               THEN [boot EXCEPT !.phase = "failed", !.error = "MissingDependencies"]
               ELSE [boot EXCEPT !.phase = "up"]
    /\ UNCHANGED <<reqVars, fsVars, vsrc, vout, logVars, pjob, cl>>

Next ==
    \/ Probe
    \/ FinishProbe
    \/ \E j \in Jobs :
        \/ CompileToPdf(j)
        \/ CompileToImage(j)
        \/ ValidateRequest(j)
        \/ Mkdir(j)
        \/ WriteTex(j)
        \/ RunLatexmk(j)
        \/ RunPdflatex(j)
        \/ CheckResult(j)
        \/ RunConvert(j)
        \/ CheckImage(j)

Spec == Init /\ [][Next]_vars

\* ------------------------------------------- requests one after another
\* no other request is being handled: the request j is the only one the
\* service works on
Alone(j) == \A k \in Jobs \ {j} : pc[k] \in {"idle", "done"}

\* the service process handling its requests one at a time
NextSeq ==
    \/ Probe
    \/ FinishProbe
    \/ \E j \in Jobs :
        \/ Alone(j) /\ CompileToPdf(j)
        \/ Alone(j) /\ CompileToImage(j)
        \/ Alone(j) /\ ValidateRequest(j)
        \/ Alone(j) /\ Mkdir(j)
        \/ Alone(j) /\ WriteTex(j)
        \/ Alone(j) /\ RunLatexmk(j)
        \/ Alone(j) /\ RunPdflatex(j)
        \/ Alone(j) /\ CheckResult(j)
        \/ Alone(j) /\ RunConvert(j)
        \/ Alone(j) /\ CheckImage(j)

SpecSeq == Init /\ [][NextSeq]_vars

\* ------------------------------------------------- the validators, alone
\* compile_latex_to_pdf on vsrc, up to the creation of the work directory:
\* the error raised or "ok", and the text that goes on to the .tex file
CallCompileValidation ==
    /\ vout.op = None
    /\ vout' = [NoCall EXCEPT !.op = "compile",
                              !.verdict = Validate(vsrc),
                              !.tex = IF Validate(vsrc) = "ok" THEN Repair(vsrc) ELSE <<>>]
    /\ UNCHANGED <<vsrc, reqVars, fsVars, boot, logVars, pjob, cl>>

\* POST /validate with vsrc as the 'latex' field
CallValidateLatex ==
    /\ vout.op = None
    /\ vout' = [NoCall EXCEPT !.op = "validate",
                              !.valid = ValidateLatex(vsrc).valid,
                              !.errors = ValidateLatex(vsrc).errors]
    /\ UNCHANGED <<vsrc, reqVars, fsVars, boot, logVars, pjob, cl>>

InitV ==
    /\ ServiceInit
    /\ vsrc \in Sources
    /\ vout = NoCall
    /\ LogIdle
    /\ PathIdle
    /\ CleanIdle

NextV == CallCompileValidation \/ CallValidateLatex

SpecV == InitV /\ [][NextV]_vars

\* ------------------------------------------------ parse_latex_log, alone
\* A log text is a sequence of pieces; a piece is one match of one of the
\* patterns parse_latex_log searches for, with the text its group captures,
\* or text that matches none of them.
Piece(k, v) == [k |-> k, v |-> v]

LogPieces ==
    {Piece("missing_document", ""), Piece("lonely_items", ""), Piece("misaligned_amp", ""),
     Piece("missing_dollar", ""), Piece("font_errors", ""), Piece("text", "")}
    \cup {Piece("undefined_commands", c) : c \in {"\\foo", "\\bar"}}
    \cup {Piece("package_errors", f) : f \in {"a.sty", "b.sty"}}

RECURSIVE LogsUpTo(_)
LogsUpTo(n) ==
    IF n = 0 THEN {<<>>}
    ELSE LET shorter == LogsUpTo(n - 1)
         IN  shorter \cup {Append(s, c) : s \in {t \in shorter : Len(t) = n - 1},
                                          c \in LogPieces}

Logs == LogsUpTo(MaxLogLen)

\* the keys of the errors dict, in the order of the literal
Categories == <<"missing_document", "undefined_commands", "lonely_items",
                "misaligned_amp", "missing_dollar", "font_errors", "package_errors">>

\* what the category appends when its pattern is found
Message(k) ==
    CASE k = "missing_document" -> "Document missing \\begin{document}"
      [] k = "lonely_items" -> "\\item commands outside list environments"
      [] k = "misaligned_amp" -> "Unescaped & characters outside tables"
      [] k = "missing_dollar" -> "Unescaped $ characters or math mode issues"
      [] k = "font_errors" -> "Missing font files"

\* re.search(pattern of k, log)
Search(log, k) == \E i \in 1..Len(log) : log[i].k = k

\* re.findall(pattern of k, log): the captured groups, in the order of the log
RECURSIVE FindAll(_, _)
FindAll(log, k) ==
    IF log = <<>> THEN <<>>
    ELSE IF log[1].k = k THEN <<log[1].v>> \o FindAll(Tail(log), k)
    ELSE FindAll(Tail(log), k)

\* set(list)
SetOf(l) == {l[i] : i \in 1..Len(l)}

\* list(set): the elements once each, in an order the language does not fix
RECURSIVE ListOf(_)
ListOf(S) ==
    IF S = {} THEN <<>>
    ELSE LET x == CHOOSE y \in S : TRUE
         IN  <<x>> \o ListOf(S \ {x})

\* parse_latex_log: the errors dict before the return
ErrorsDict_nodedup(log) ==
    [k \in SetOf(Categories) |->
        IF k = "undefined_commands" THEN FindAll(log, k)
        ELSE IF k = "package_errors" THEN FindAll(log, k)
        ELSE IF Search(log, k) THEN <<Message(k)>>
        ELSE <<>>]

ErrorsDict(log) ==
    [k \in SetOf(Categories) |->
        IF k = "undefined_commands" THEN ListOf(SetOf(FindAll(log, k)))
        ELSE IF k = "package_errors"
        THEN IF FindAll(log, k) # <<>> THEN ListOf(SetOf(FindAll(log, k))) ELSE <<>>
        ELSE IF Search(log, k) THEN <<Message(k)>>
        ELSE <<>>]

\* parse_latex_log: the dict it returns
ParseLatexLog(log) ==
    IF log = <<>> THEN [k \in SetOf(Categories) |-> <<>>]
    ELSE LET errors == ErrorsDict(log)
         IN  [k \in {c \in DOMAIN errors : errors[c] # <<>>} |-> errors[k]]

CallParseLatexLog ==
    /\ ~ lout.called
    /\ lout' = [called |-> TRUE, map |-> ParseLatexLog(lsrc)]
    /\ UNCHANGED <<lsrc, reqVars, fsVars, vsrc, vout, boot, pjob, cl>>

InitL ==
    /\ ServiceInit
    /\ vsrc = <<>>
    /\ vout = NoCall
    /\ lsrc \in Logs
    /\ lout = NoParse
    /\ PathIdle
    /\ CleanIdle

NextL == CallParseLatexLog

SpecL == InitL /\ [][NextL]_vars

\* --------------------------------------------- one job, path by path
\* the directories that exist when the service is up: the root, the system
\* temporary directory and the workspace root made by LaTeXCompiler.__init__
BaseDirs == {<<>>, <<Part("tmp", "")>>, TempDir}

PathVarsUnchanged == UNCHANGED <<reqVars, fsVars, vsrc, vout, boot, logVars, cl>>

Written(what, at) == [what |-> what, at |-> at]

\* compile_latex_to_pdf: work_dir.mkdir(exist_ok=True); without parents=True
\* it raises if the parent directory does not exist
PMkdir ==
    LET d == Resolve(WorkDirPath(pjob.name), pjob.dirs)
    IN  /\ pjob.pc = "mkdir"
        /\ pjob' = IF d = Unresolved \/ d = <<>> \/ DirOf(d) \notin pjob.dirs
                   THEN [pjob EXCEPT !.pc = "failed"]
                   ELSE [pjob EXCEPT !.pc = "write", !.work = d, !.dirs = @ \cup {d}]
        /\ PathVarsUnchanged

\* compile_latex_to_pdf: open(tex_file, 'w'); it raises if the directory of
\* the file does not exist
PWriteTex ==
    LET f == Resolve(TexPath(pjob.name), pjob.dirs)
    IN  /\ pjob.pc = "write"
        /\ pjob' = IF f = Unresolved \/ f \in pjob.dirs \/ DirOf(f) \notin pjob.dirs
                   THEN [pjob EXCEPT !.pc = "failed"]
                   ELSE [pjob EXCEPT !.pc = "compile", !.writes = @ \cup {Written("tex", f)}]
        /\ PathVarsUnchanged

\* compile_latex_to_pdf: latexmk and pdflatex run with
\* -output-directory=work_dir and write their .log and .pdf there
PCompile ==
    LET d == Resolve(WorkDirPath(pjob.name), pjob.dirs)
    IN  /\ pjob.pc = "compile"
        /\ pjob' = [pjob EXCEPT !.pc = IF pjob.fmt = None THEN "done" ELSE "convert",
                                !.writes = @ \cup {Written("outdir", d)}]
        /\ PathVarsUnchanged

\* pdf_to_image: convert writes the image file
PConvert ==
    LET f == Resolve(ImagePath(PdfPath(pjob.name), pjob.fmt), pjob.dirs)
    IN  /\ pjob.pc = "convert"
        /\ pjob' = IF f = Unresolved \/ DirOf(f) \notin pjob.dirs
                   THEN [pjob EXCEPT !.pc = "failed"]
                   ELSE [pjob EXCEPT !.pc = "done", !.writes = @ \cup {Written("image", f)}]
        /\ PathVarsUnchanged

InitP ==
    /\ ServiceInit
    /\ vsrc = <<>>
    /\ vout = NoCall
    /\ LogIdle
    /\ CleanIdle
    /\ \E n \in PathNames, f \in SupportedFormats \cup {None} :
          pjob = [pc |-> "mkdir", name |-> n, fmt |-> f, work |-> Unresolved,
                  dirs |-> BaseDirs, writes |-> {}]

NextP == PMkdir \/ PWriteTex \/ PCompile \/ PConvert

SpecP == InitP /\ [][NextP]_vars

\* ------------------------------------------------------- cleanup, alone
Exts == {"tex", "log", "pdf"}

\* the work directories earlier jobs can have left
WorkDirs == {WorkDir(n) : n \in Names}

\* the orders in which a directory can list its entries
Orders == {o \in [1..Cardinality(Exts) -> Exts] : \A i, k \in DOMAIN o : o[i] = o[k] => i = k}

\* the entries of the directory d, in the order the directory lists them
Entries(d, fs, order) ==
    LET all == [i \in DOMAIN order |-> FileIn(d, d[1], order[i])]
        Here(p) == p \in DOMAIN fs
    IN  SelectSeq(all, Here)

\* shutil.rmtree(d): the entries are unlinked in the order of the listing,
\* the first one that cannot be removed raises and ends the walk; the
\* directory itself is removed last; a directory that does not exist raises
RmTree(d, ds, fs, locked, order) ==
    IF d \notin ds THEN [dirs |-> ds, files |-> fs, error |-> "FileNotFoundError"]
    ELSE LET ents == Entries(d, fs, order)
             stuck == {i \in DOMAIN ents : ents[i] \in locked}
             stop == IF stuck = {} THEN Len(ents) + 1
                     ELSE CHOOSE i \in stuck : \A k \in stuck : i <= k
             gone == {ents[i] : i \in 1..(stop - 1)}
             left == [p \in DOMAIN fs \ gone |-> fs[p]]
         IN  IF stuck # {} \/ d \in locked
             THEN [dirs |-> ds, files |-> left, error |-> "PermissionError"]
             ELSE [dirs |-> ds \ {d}, files |-> left, error |-> None]

\* cleanup: the errors its 'except Exception' catches
Caught_missingonly(e) == e = "FileNotFoundError"

Caught(e) == e \in {"FileNotFoundError", "PermissionError"}

\* LaTeXCompiler.cleanup(d)
Cleanup(d) ==
    LET r == RmTree(d, dirs, files, cl.locked, cl.order)
    IN  /\ Len(cl.calls) < MaxCleanups
        /\ dirs' = r.dirs
        /\ files' = r.files
        /\ cleaned' = cleaned \cup {d}
        /\ cl' = [cl EXCEPT !.calls = Append(@, [dir |-> d, error |-> r.error,
                                                 dirs |-> r.dirs, files |-> r.files]),
                            !.raised = @ \/ (r.error # None /\ ~ Caught(r.error))]
        /\ UNCHANGED <<reqVars, vsrc, vout, boot, logVars, pjob>>

\* no request is being handled
NoRequests ==
    /\ pc = [j \in Jobs |-> "idle"]
    /\ kind = [j \in Jobs |-> None]
    /\ name = [j \in Jobs |-> None]
    /\ fmt = [j \in Jobs |-> None]
    /\ work_dir = [j \in Jobs |-> NoDir]
    /\ result = [j \in Jobs |-> 0]
    /\ attempts = [j \in Jobs |-> <<>>]
    /\ status = [j \in Jobs |-> None]
    /\ err = [j \in Jobs |-> None]
    /\ resp = [j \in Jobs |-> 0]
    /\ got = [j \in Jobs |-> 0]

\* the files the work directories ds can hold
FilesOf(ds) == {FileIn(d, d[1], e) : d \in ds, e \in Exts}

\* the work directories earlier jobs left, with any of their files, any of
\* which may be impossible to remove
InitC ==
    /\ NoRequests
    /\ boot = [phase |-> "up", missing |-> <<>>, probed |-> Len(Dependencies), error |-> None]
    /\ vsrc = <<>>
    /\ vout = NoCall
    /\ LogIdle
    /\ PathIdle
    /\ cleaned = {}
    /\ dirs \in SUBSET WorkDirs
    /\ \E fset \in SUBSET FilesOf(dirs) : files = [p \in fset |-> 1]
    /\ \E lk \in SUBSET (dirs \cup DOMAIN files), o \in Orders :
          cl = [locked |-> lk, order |-> o, calls |-> <<>>, raised |-> FALSE]

NextC == \E d \in WorkDirs : Cleanup(d)

SpecC == InitC /\ [][NextC]_vars

\* ===================================================== claims, under SpecV
HasMarker(s, m) == \E i \in DOMAIN s : s[i] = m
Blank(s) == \A i \in DOMAIN s : s[i] = NL
Balanced(s) == Count(s, "{") = Count(s, "}")
MissingEnd == "Missing \\end{document}"
Unbalanced == "Unbalanced braces"
InErrors(e) == \E i \in DOMAIN vout.errors : vout.errors[i] = e

\* C6: compile_latex_to_pdf validates in this order and fails at the first
\* violated check: a blank source fails with the empty-source error; else a
\* source without \documentclass fails with the error for it; else a source
\* without \begin{document} fails with the error for it; a source missing
\* only \end{document} passes the validation.
C6_ValidationOrder ==
    vout.op = "compile" =>
        /\ Blank(vsrc) => vout.verdict = "EmptySource"
        /\ ~ Blank(vsrc) /\ ~ HasMarker(vsrc, DC) => vout.verdict = "MissingDocumentclass"
        /\ ~ Blank(vsrc) /\ HasMarker(vsrc, DC) /\ ~ HasMarker(vsrc, BD)
              => vout.verdict = "MissingBeginDocument"
        /\ HasMarker(vsrc, DC) /\ HasMarker(vsrc, BD) => vout.verdict = "ok"

\* a non-blank source with neither marker was validated: the order decides
C6_Witness ==
    /\ vout.op = "compile"
    /\ ~ Blank(vsrc)
    /\ ~ HasMarker(vsrc, DC)
    /\ ~ HasMarker(vsrc, BD)
    /\ vout.verdict = "MissingDocumentclass"

\* the sources C7 is about: both opening markers, balanced braces, only
\* \end{document} missing
C7Pre(s) ==
    /\ HasMarker(s, DC)
    /\ HasMarker(s, BD)
    /\ Balanced(s)
    /\ ~ HasMarker(s, ED)

\* t is s without its trailing whitespace, followed by "\n\end{document}"
Repaired(s, t) ==
    \E k \in 0..Len(s) :
        /\ k = 0 \/ s[k] # NL
        /\ \A i \in (k + 1)..Len(s) : s[i] = NL
        /\ t = SubSeq(s, 1, k) \o <<NL, ED>>

\* C7 as stated: for a source with \documentclass and \begin{document},
\* balanced braces and only \end{document} missing, compile appends the
\* closing marker and goes on, and validate_latex answers valid=true with no
\* error about the closing marker.
C7_Original ==
    C7Pre(vsrc) =>
        /\ vout.op = "compile" => vout.verdict = "ok" /\ Repaired(vsrc, vout.tex)
        /\ vout.op = "validate" => vout.valid /\ ~ InErrors(MissingEnd)

\* C7 as amended: for such a source compile appends the closing marker and
\* goes on to compilation, while validate_latex does not repair: it answers
\* valid=false with the missing closing marker as its one and only error.
C7_RepairOnCompileOnly ==
    C7Pre(vsrc) =>
        /\ vout.op = "compile" => vout.verdict = "ok" /\ Repaired(vsrc, vout.tex)
        /\ vout.op = "validate" => ~ vout.valid /\ vout.errors = <<MissingEnd>>

\* such a source, ending in whitespace, went through the compile validation
C7_Witness ==
    /\ C7Pre(vsrc)
    /\ vsrc[Len(vsrc)] = NL
    /\ vout.op = "compile"
    /\ vout.tex # <<>>

\* C8: for every source whose count of '{' differs from its count of '}',
\* validate_latex returns valid=false with the unbalanced-braces warning
\* among its errors; for every source with equal counts the warning is not
\* among its errors.
C8_BraceBalance ==
    vout.op = "validate" =>
        /\ ~ Balanced(vsrc) => ~ vout.valid /\ InErrors(Unbalanced)
        /\ Balanced(vsrc) => ~ InErrors(Unbalanced)

\* a source with more closing than opening braces was validated
C8_Witness ==
    /\ vout.op = "validate"
    /\ Count(vsrc, "}") > Count(vsrc, "{")
    /\ InErrors(Unbalanced)

\* ====================================================== claims, under Spec
\* the path of {outputName}.pdf in the workspace of request j
PdfOf(j) == <<<<name[j], Pid>>, name[j], "pdf">>
TexOf(j) == <<<<name[j], Pid>>, name[j], "tex">>
Compiles(j) == CompileAttempts(attempts[j])
ExitedZero(a) == a.rc = 0 /\ ~ a.raised
LastExitedZero(j) == Compiles(j) # <<>> /\ ExitedZero(Compiles(j)[Len(Compiles(j))])
Converted(j) == \E i \in DOMAIN attempts[j] : attempts[j][i].tool = "convert"

\* C1: a compile job ends Succeeded only if the last compilation attempt it
\* ran exited with code zero and {outputName}.pdf exists in its workspace
\* at that moment; when the last attempt exited zero and the file is
\* absent, the job ends Failed with OutputMissing.
C1_SuccessNeedsPdf ==
    [][\A j \in Jobs :
          /\ status[j] # "Succeeded" /\ status'[j] = "Succeeded"
                => LastExitedZero(j) /\ PdfOf(j) \in DOMAIN files
          /\ pc[j] = "check" /\ pc'[j] # "check" /\ LastExitedZero(j)
                /\ PdfOf(j) \notin DOMAIN files
                => status'[j] = "Failed" /\ err'[j] = "OutputMissing"]_vars

\* a job whose last attempt exited zero ended in OutputMissing
C1_Witness ==
    \E j \in Jobs :
        /\ pc[j] = "done"
        /\ LastExitedZero(j)
        /\ status[j] = "Failed"
        /\ err[j] = "OutputMissing"

\* the attempts of C2: one latexmk run first, pdflatex passes after it only
\* if it exited nonzero, at most 3 of them, none after a pass that exited zero
AttemptShape(ca) ==
    /\ ca # <<>> => ca[1].tool = "latexmk"
    /\ \A i \in 2..Len(ca) : ca[i].tool = "pdflatex"
    /\ Len(ca) > 1 => ~ ca[1].raised /\ ca[1].rc # 0
    /\ Len(ca) <= 1 + 3
    /\ \A i \in 2..(Len(ca) - 1) : ~ ExitedZero(ca[i])

PrimaryDone(j) == pc[j] \in {"pdflatex", "check", "convert", "checkimg"}
                  \/ (pc[j] = "done" /\ work_dir[j] # NoDir)

FellBackToZero(j) == Len(Compiles(j)) > 1 /\ LastExitedZero(j)

Running(j) == work_dir[j] # NoDir /\ pc[j] # "done"

\* C3: two distinct compile jobs running at the same time have distinct
\* workspace directories, also when they carry the same output name.
C3_DistinctWorkspaces ==
    \A j1, j2 \in Jobs :
        j1 # j2 /\ Running(j1) /\ Running(j2) => work_dir[j1] # work_dir[j2]

\* C4: in an image request the conversion is started only after the
\* compilation of the same request ended Succeeded; after a failed
\* compilation no conversion is attempted.
C4_ConvertAfterSuccess ==
    \A j \in Jobs :
        /\ Converted(j) \/ pc[j] \in {"convert", "checkimg"} => status[j] = "Succeeded"
        /\ status[j] = "Failed" => ~ Converted(j)

\* an image request started the conversion after its compilation succeeded
C4_Witness ==
    \E j \in Jobs : kind[j] = "image" /\ Converted(j) /\ status[j] = "Succeeded"

FailedInWorkspace(j) == pc[j] = "done" /\ resp[j] = 500 /\ work_dir[j] # NoDir

\* C9: a job whose compilation or conversion failed leaves its workspace in
\* place, the directory and the files in it; the program removes a workspace
\* or a file of it only for a job that succeeded.
C9_WorkspaceRetained ==
    /\ [](\A j \in Jobs :
             FailedInWorkspace(j) => work_dir[j] \in dirs /\ TexOf(j) \in DOMAIN files)
    /\ [][/\ \A d \in dirs \ dirs' :
                \E j \in Jobs : work_dir[j] = d /\ resp'[j] = 200
          /\ \A p \in DOMAIN files \ DOMAIN files' :
                \E j \in Jobs : work_dir[j] = p[1] /\ resp'[j] = 200]_vars

\* one job failed in compilation and one in conversion, workspaces in place
C9_Witness ==
    \E j1, j2 \in Jobs :
        /\ FailedInWorkspace(j1) /\ status[j1] = "Failed"
        /\ FailedInWorkspace(j2) /\ status[j2] = "Succeeded"
        /\ work_dir[j1] \in dirs
        /\ work_dir[j2] \in dirs

\* C10: for every job that ended Succeeded the program has invoked cleanup
\* on its workspace by the time the request is answered.
C10_CleanupOnSuccess ==
    \A j \in Jobs :
        pc[j] = "done" /\ status[j] = "Succeeded" => work_dir[j] \in cleaned

\* ===================================================== claims, under SpecL
NoRepeat(l) == \A i, k \in 1..Len(l) : l[i] = l[k] => i = k
UndefinedIn(log) == {log[i].v : i \in {n \in 1..Len(log) : log[n].k = "undefined_commands"}}

\* C11: every evidence list parse_latex_log returns has no repeated element,
\* and the undefined_commands evidence has exactly one entry per distinct
\* offending token of the log, however often the token occurs.
C11_EvidenceDeduplicated ==
    lout.called =>
        /\ \A k \in DOMAIN lout.map : NoRepeat(lout.map[k])
        /\ UndefinedIn(lsrc) # {} =>
              /\ "undefined_commands" \in DOMAIN lout.map
              /\ Len(lout.map["undefined_commands"]) = Cardinality(UndefinedIn(lsrc))
              /\ SetOf(lout.map["undefined_commands"]) = UndefinedIn(lsrc)

\* a log with two distinct undefined commands, one of them twice, was parsed
C11_Witness ==
    /\ lout.called
    /\ Len(lsrc) = 3
    /\ \A i \in 1..3 : lsrc[i].k = "undefined_commands"
    /\ Cardinality(UndefinedIn(lsrc)) = 2
    /\ Len(lout.map["undefined_commands"]) = 2

\* C12: for every log text, the empty log included, the map parse_latex_log
\* returns has no key whose evidence is empty.
C12_NoEmptyCategory ==
    lout.called => \A k \in DOMAIN lout.map : lout.map[k] # <<>>

\* ====================================================== claims, under Spec
\* C13: after a successful compilation of a job named N, the conversion to
\* the format F writes and returns {workspace}/N.F, for every job name N.
C13_ImageNamedByJob ==
    \A j \in Jobs :
        kind[j] = "image" /\ pc[j] = "done" /\ resp[j] = 200
           => <<work_dir[j], name[j], Lower(fmt[j])>> \in DOMAIN files

\* a step of the job j
Steps(j) == pc'[j] # pc[j]

\* C15: validate_latex never creates a workspace, never writes or reads a
\* file and never starts an external process: a step of a validation request
\* leaves the workspaces, the files and the process invocations as they were.
C15_ValidateTouchesNothing ==
    [][\A j \in Jobs :
          Steps(j) /\ kind'[j] = "validate"
             => /\ UNCHANGED <<dirs, files, cleaned>>
                /\ UNCHANGED <<attempts, work_dir, got>>
                /\ work_dir[j] = NoDir /\ attempts[j] = <<>>]_vars

\* a validation request was answered while another job's workspace existed
C15_Witness ==
    \E j \in Jobs :
        /\ kind[j] = "validate" /\ pc[j] = "done" /\ resp[j] = 200
        /\ work_dir[j] = NoDir /\ attempts[j] = <<>>
        /\ dirs # {} /\ files # <<>>

\* C16: a request is handled only after the startup probe found latexmk,
\* pdflatex and convert invocable; if one of them cannot be launched or its
\* version probe exits nonzero, startup fails with the missing-dependency
\* error and no request is ever served.
C16_FailFast ==
    /\ (\E j \in Jobs : pc[j] # "idle")
          => boot.phase = "up" /\ boot.missing = <<>> /\ boot.probed = Len(Dependencies)
    /\ boot.phase = "failed" => boot.error = "MissingDependencies"

\* the convert process of the job j has run and pdf_to_image has ended
ConvertEnded(j) ==
    /\ kind[j] = "image" /\ pc[j] = "done"
    /\ attempts[j] # <<>>
    /\ attempts[j][Len(attempts[j])].tool = "convert"
    /\ ~ attempts[j][Len(attempts[j])].raised

\* C18: pdf_to_image returns an image path only if convert exited zero and
\* the image file exists; on a nonzero exit, and on a zero exit with the file
\* missing, it fails with an error that carries the stdout and the stderr of
\* convert.
C18_ConversionErrors ==
    \A j \in Jobs :
        ConvertEnded(j) =>
           LET rc == attempts[j][Len(attempts[j])].rc
               img == ImageFile(FileIn(work_dir[j], name[j], "pdf"), Lower(fmt[j]))
           IN  /\ resp[j] = 200 => rc = 0 /\ Exists(img)
               /\ rc # 0 \/ ~ Exists(img)
                     => resp[j] = 500 /\ {"stdout", "stderr"} \subseteq ErrorCarries(err[j])

\* the state of the compile job of the request j: Validating until
\* compile_latex_to_pdf has validated the source, NoJob for a request that
\* never calls compile_latex_to_pdf
JobState(j) ==
    IF pc[j] = "idle" THEN "Validating"
    ELSE IF status[j] # None THEN status[j]
    ELSE IF pc[j] \in {"mkdir", "write", "latexmk"} THEN "CompilingPrimary"
    ELSE IF pc[j] = "pdflatex" THEN "CompilingFallback"
    ELSE IF pc[j] = "check"
    THEN (IF Len(Compiles(j)) > 1 THEN "CompilingFallback" ELSE "CompilingPrimary")
    ELSE "NoJob"

Terminal == {"Succeeded", "Failed"}

\* the transitions of the claim's state machine
ClaimedTransitions ==
    {<<"Validating", "CompilingPrimary">>,
     <<"CompilingPrimary", "Succeeded">>, <<"CompilingPrimary", "CompilingFallback">>,
     <<"CompilingFallback", "Succeeded">>, <<"CompilingFallback", "Failed">>}

\* the transitions the code adds: a source that fails validation, and a
\* primary compilation that cannot be started or exits zero without a PDF
DirectFailures ==
    {<<"Validating", "Failed">>, <<"CompilingPrimary", "Failed">>}

StateRank(q) ==
    IF q = "Validating" THEN 0
    ELSE IF q = "CompilingPrimary" THEN 1
    ELSE IF q = "CompilingFallback" THEN 2
    ELSE 3

\* the job j moves only along the transitions ts, and never back
MovesAlong(j, ts) ==
    JobState(j)' # JobState(j) /\ JobState(j)' # "NoJob"
       => /\ <<JobState(j), JobState(j)'>> \in ts
          /\ StateRank(JobState(j)') > StateRank(JobState(j))

\* a step of the compilation of the job j
CompileStep(j) == Mkdir(j) \/ WriteTex(j) \/ RunLatexmk(j) \/ RunPdflatex(j) \/ CheckResult(j)

\* the job j has run at most 1 + FallbackPasses compilations, a job in a
\* compiling state can take its next step, and one that has run them all is
\* one step from a terminal state
WithinBudget(j) ==
    /\ Len(Compiles(j)) <= 1 + FallbackPasses
    /\ JobState(j) \in {"CompilingPrimary", "CompilingFallback"} => ENABLED CompileStep(j)
    /\ Len(Compiles(j)) = 1 + FallbackPasses
          => JobState(j) \in Terminal \/ pc[j] = "check"

\* C19, as claimed: every compile job takes only the transitions Validating
\* -> CompilingPrimary -> {Succeeded | CompilingFallback} -> {Succeeded |
\* Failed}, never re-enters a state, and is terminal after at most 4
\* compilations.
C19_Original ==
    [][\A j \in Jobs : MovesAlong(j, ClaimedTransitions)]_vars

\* C19, amended: the same, with the two direct failures Validating -> Failed
\* and CompilingPrimary -> Failed added to the transitions.
C19_StateMachine ==
    /\ [](\A j \in Jobs : WithinBudget(j))
    /\ [][\A j \in Jobs : MovesAlong(j, ClaimedTransitions \cup DirectFailures)]_vars

\* a job failed after the primary compilation and all the fallback passes
C19_Witness ==
    \E j \in Jobs :
        /\ Len(Compiles(j)) = 1 + FallbackPasses
        /\ JobState(j) = "Failed"

\* =================================================== claims, under SpecSeq
\* C20: with the jobs run one after another, same output names included, a
\* job that ends Succeeded returns a PDF made by its own compilation from its
\* own source, and the diagnostic of a failed job is built from a log its
\* own compilation wrote, never from what an earlier job left.
C20_OwnArtifacts ==
    \A j \in Jobs :
        pc[j] = "done" =>
           /\ status[j] = "Succeeded" => got[j] = j
           /\ err[j] = "CompilationFailed" /\ got[j] # 0 => got[j] = j

\* the errors the pre-validation of compile_latex_to_pdf raises
ValidationErrors == {"EmptySource", "MissingDocumentclass", "MissingBeginDocument"}

\* C21: when compile_latex_to_pdf fails validation (blank source, missing
\* document class, missing body-open marker) it has created no workspace,
\* written no file and started no process: the step that fails leaves the
\* directories, the files and the invocations as they were, and the job has
\* no workspace, no file and no invocation of its own.
C21_ValidationFailureTouchesNothing ==
    /\ [](\A j \in Jobs :
             err[j] \in ValidationErrors
                => /\ pc[j] = "done" /\ status[j] = "Failed"
                   /\ work_dir[j] = NoDir
                   /\ attempts[j] = <<>>
                   /\ \A p \in DOMAIN files : files[p] # j)
    /\ [][\A j \in Jobs :
             err'[j] \in ValidationErrors /\ err[j] \notin ValidationErrors
                => /\ UNCHANGED <<dirs, files, cleaned>>
                   /\ UNCHANGED <<attempts, work_dir>>]_vars

\* a validation error was raised while the workspace and the files of
\* another job existed
C21_Witness ==
    \E j \in Jobs :
        /\ err[j] \in ValidationErrors
        /\ work_dir[j] = NoDir /\ attempts[j] = <<>>
        /\ dirs # {} /\ files # <<>>

\* the compilation attempts ca end with a fallback pass that raised
EndsRaised(ca) ==
    /\ ca # <<>>
    /\ ca[Len(ca)].tool = "pdflatex"
    /\ ca[Len(ca)].raised

\* the fallback of the job j ended on an exception
FallbackRaised(j) == EndsRaised(Compiles(j))

\* C22: an exception in a fallback pass does not leave try_direct_pdflatex:
\* it ends the fallback at once with a result of exit code 1 whose stderr is
\* the exception text, the job ends Failed through the compilation-failed
\* path, and the fallback's result is zero only if a pass exited zero.
C22_FallbackException ==
    /\ [](\A j \in Jobs :
             LET ca == Compiles(j)
             IN  /\ \A i \in 1..(Len(ca) - 1) : ~ (ca[i].tool = "pdflatex" /\ ca[i].raised)
                 /\ EndsRaised(ca)
                       => /\ ca[Len(ca)].rc = 1 /\ StderrOf(ca[Len(ca)]) = "exception"
                          /\ pc[j] \in {"check", "done"}
                          /\ pc[j] = "check" => result[j] = 1 /\ err[j] = None
                          /\ pc[j] = "done"
                                => status[j] = "Failed" /\ err[j] = "CompilationFailed"
                 /\ pc[j] = "check" /\ Len(ca) > 1 /\ result[j] = 0
                       => ExitedZero(ca[Len(ca)]))
    /\ [][\A j \in Jobs :
             pc[j] = "pdflatex" /\ pc'[j] # pc[j] /\ FallbackRaised(j)'
                => pc'[j] = "check" /\ result'[j] = 1 /\ UNCHANGED <<err, resp, status>>]_vars

\* latexmk failed, the first fallback pass failed, the second raised, and the
\* job ended Failed with the compilation error
C22_Witness ==
    \E j \in Jobs :
        /\ Len(Compiles(j)) = 3
        /\ FallbackRaised(j)
        /\ pc[j] = "done" /\ status[j] = "Failed" /\ err[j] = "CompilationFailed"

\* ===================================================== claims, under SpecC
\* C17: cleanup never propagates an error, whether the directory exists, is
\* already removed or cannot be removed; and calling it twice on the same
\* workspace leaves the state the first call left.
C17_CleanupTolerant ==
    /\ ~ cl.raised
    /\ \A i \in 1..(Len(cl.calls) - 1) :
          cl.calls[i + 1].dir = cl.calls[i].dir
             => /\ cl.calls[i + 1].dirs = cl.calls[i].dirs
                /\ cl.calls[i + 1].files = cl.calls[i].files

\* cleanup was called twice on a workspace that cannot be removed, and once
\* more on one that was already removed
C17_Witness ==
    /\ Len(cl.calls) >= 2
    /\ cl.calls[1].dir = cl.calls[2].dir
    /\ cl.calls[1].error = "PermissionError"
    /\ cl.calls[2].error = "PermissionError"
    /\ cl.calls[1].dir \in dirs
    /\ ~ cl.raised

\* ===================================================== claims, under SpecP
IsPrefix(a, b) == Len(a) <= Len(b) /\ SubSeq(b, 1, Len(a)) = a

\* C14: for every job name, names with path separators or '..' parts
\* included, the job's workspace is a directory directly under the workspace
\* root and every file the program writes or directs the toolchain to write
\* (the .tex source, the output directory, the image) lies inside it.
C14_WritesInsideWorkspace ==
    /\ pjob.work # Unresolved =>
          Len(pjob.work) = Len(TempDir) + 1 /\ IsPrefix(TempDir, pjob.work)
    /\ \A w \in pjob.writes : IsPrefix(pjob.work, w.at)

====
